---- MODULE Spec2Model ----
(***************************************************************************)
(* The rules engine of the "No Thanks!" card game (game/engine.ts): deck   *)
(* preparation, createGame, passCard, takeCard, scoring.                   *)
(*                                                                         *)
(* A match is one GameState value.  The caller (App.tsx) replaces the      *)
(* state it holds by the result of passCard / takeCard; the model keeps    *)
(* the held state in `state`, the argument of the last call in `prev`,     *)
(* and what the last call was and how it ended in `lastOp` / `outcome`.    *)
(* Array indices are 0-based as in the source; a sequence s is read at     *)
(* s[i + 1].                                                               *)
(***************************************************************************)
EXTENDS Integers, Sequences, FiniteSets, TLC

VARIABLES
    setups,        \* the argument of createGame
    prepared,      \* the value prepareDeck() returned inside createGame
    state,         \* the GameState the caller holds
    prev,          \* the GameState handed to the last call
    lastOp,        \* "create" | "pass" | "take" | "timer": the last call
    outcome,       \* "returned" | "threw": how the last call ended
    passesOnCard,  \* history: state-changing passCard calls since the reveal
    takes,         \* history: state-changing takeCard calls of the match
    handovers,     \* history: passCard calls that moved the turn to another seat
    call,          \* a direct call of a pure function: its name and arguments
    result,        \* what that call returned, once it has returned
    timer,         \* App: the pending setTimeout of the bot effect, with the
                   \*      `choice` and `active.id` its callback has captured
    effectDue,     \* App: `game` has changed and the bot effect has not rerun
    fired          \* App: the timeout whose callback ran last

gameVars == <<setups, prepared, state, prev, lastOp, outcome, passesOnCard,
              takes, handovers>>
pureVars == <<call, result>>
appVars  == <<timer, effectDue, fired>>

vars == <<setups, prepared, state, prev, lastOp, outcome, passesOnCard,
          takes, handovers, call, result, timer, effectDue, fired>>

(***************************************************************************)
(* Program constants.                                                      *)
(***************************************************************************)
MIN_CARD == 3
MAX_CARD == 35
UNKNOWN_CARDS == 9
STARTING_CHIPS == 11

\* activeCard: number | null.  No card is 0, so 0 stands for null.
Null == 0

(***************************************************************************)
(* Bounds of the exploration.                                              *)
(***************************************************************************)
\* Direct calls of cardPoints are tried with the cards MIN_CARD..MaxInputCard.
MaxInputCard == 7
\* Direct calls of computeScores are tried with 0..MaxScorePlayers players,
\* each with 0..MaxScoreChips chips and a hand of cards MIN_CARD..MaxScoreCard.
MaxScorePlayers == 2
MaxScoreChips == 1
MaxScoreCard == 4
\* Direct calls of decideBotAction are tried with an active card in
\* MIN_CARD..MaxBotCard, a hand of at most MaxBotHand of these cards,
\* 0..MaxBotChips chips and 0..MaxBotPile chips on the card.
MaxBotCard == 11
MaxBotHand == 2
MaxBotChips == 1
MaxBotPile == 5
\* In the specification of a whole match played to its end, the turn is
\* handed on over the first MaxPassedCards cards only.
MaxPassedCards == 1
\* createGame is tried with 0..MaxPlayers setups.
MaxPlayers == 3
\* Math.random() is tried with the random streams 0..MaxSeed.
MaxSeed == 1
\* passCard calls that hand the turn to ANOTHER seat, per match.  With one
\* seat the turn never moves, and that match is explored without a cap.
MaxHandovers == 2

(***************************************************************************)
(* Math.random(): a value in [0,1).  Stream `seed` yields, at its k-th     *)
(* draw, the fraction Random(seed, k) / RandDen.                           *)
(***************************************************************************)
RandDen == 100

Random(seed, k) == (37 * seed + 61 * k + 13 * seed * k * k + 5) % RandDen

\* Math.floor(Math.random() * n), on the k-th draw of the stream
RandomIndex(seed, k, n) == (Random(seed, k) * n) \div RandDen

(***************************************************************************)
(* Array helpers.                                                          *)
(***************************************************************************)
\* range(start, endInclusive)
range(start, endInclusive) ==
    [i \in 1..(endInclusive - start + 1) |-> start + (i - 1)]

makeDeck == range(MIN_CARD, MAX_CARD)

\* deck.splice(idx, 1): the array without the element at 0-based idx
SpliceOut(s, idx) ==
    [i \in 1..(Len(s) - 1) |-> IF i <= idx THEN s[i] ELSE s[i + 1]]

\* [deck[i], deck[j]] = [deck[j], deck[i]], 0-based i and j
Swap(s, i, j) ==
    [k \in 1..Len(s) |-> IF k = i + 1 THEN s[j + 1]
                         ELSE IF k = j + 1 THEN s[i + 1] ELSE s[k]]

Elems(s) == {s[i] : i \in 1..Len(s)}

\* insertion of x into an ascending array, after the elements <= x (stable)
RECURSIVE InsertAsc(_, _)
InsertAsc(s, x) ==
    IF s = <<>> THEN <<x>>
    ELSE IF x < Head(s) THEN <<x>> \o s
    ELSE <<Head(s)>> \o InsertAsc(Tail(s), x)

\* [...cards].sort((a, b) => a - b)
RECURSIVE SortAsc(_)
SortAsc(s) ==
    IF s = <<>> THEN <<>>
    ELSE InsertAsc(SortAsc(SubSeq(s, 1, Len(s) - 1)), s[Len(s)])

(***************************************************************************)
(* shuffle and prepareDeck.  k counts the draws of the stream used so far. *)
(***************************************************************************)
\* the loop of shuffle: for (i = deck.length - 1; i > 0; i -= 1)
RECURSIVE ShuffleLoop(_, _, _, _)
ShuffleLoop(deck, i, seed, k) ==
    IF i > 0
    THEN ShuffleLoop(Swap(deck, i, RandomIndex(seed, k, i + 1)), i - 1, seed, k + 1)
    ELSE deck

shuffle(cards, seed, k) == ShuffleLoop(cards, Len(cards) - 1, seed, k)

\* the loop of prepareDeck: for (i = 0; i < UNKNOWN_CARDS; i += 1)
RECURSIVE RemoveLoop(_, _, _, _)
RemoveLoop(deck, removed, i, seed) ==
    IF i < UNKNOWN_CARDS
    THEN LET idx == RandomIndex(seed, i, Len(deck))
         IN  RemoveLoop(SpliceOut(deck, idx), Append(removed, deck[idx + 1]),
                        i + 1, seed)
    ELSE [deck |-> deck, removed |-> removed]

prepareDeck(seed) ==
    LET r == RemoveLoop(makeDeck, <<>>, 0, seed)
    IN  [deck |-> shuffle(r.deck, seed, UNKNOWN_CARDS), removed |-> r.removed]

(***************************************************************************)
(* Player setups, as the setup screen of App.tsx builds them.              *)
(***************************************************************************)
SeatIds == <<"p1", "p2", "p3", "p4", "p5">>

Seat(i) ==
    IF i = 1 THEN [id |-> "p1", name |-> "You", isHuman |-> TRUE]
    ELSE IF i = 2 THEN [id |-> "p2", name |-> "Friend", isHuman |-> TRUE]
    ELSE IF i = 3 THEN [id |-> "p3", name |-> "Bot A", isHuman |-> FALSE,
                        botStyle |-> "standard"]
    ELSE [id |-> SeatIds[i], name |-> "Bot", isHuman |-> FALSE,
          botStyle |-> "standard"]

SetupList(n) == [i \in 1..n |-> Seat(i)]

\* startPlayers: { ...p, chips: STARTING_CHIPS, cards: [] }
startPlayers(ss) ==
    [i \in 1..Len(ss) |-> [chips |-> STARTING_CHIPS, cards |-> <<>>] @@ ss[i]]

\* createGame that reads the first card without taking it off the deck
createGame_NoShift(ss, pd) ==
    [players            |-> startPlayers(ss),
     deck               |-> pd.deck,
     removed            |-> pd.removed,
     activeCard         |-> IF pd.deck = <<>> THEN Null ELSE Head(pd.deck),
     chipsOnCard        |-> 0,
     currentPlayerIndex |-> 0,
     status             |-> "playing"]

\* createGame, given what prepareDeck() returned
createGame(ss, pd) ==
    [players            |-> startPlayers(ss),
     deck               |-> IF pd.deck = <<>> THEN <<>> ELSE Tail(pd.deck),
     removed            |-> pd.removed,
     activeCard         |-> IF pd.deck = <<>> THEN Null ELSE Head(pd.deck),
     chipsOnCard        |-> 0,
     currentPlayerIndex |-> 0,
     status             |-> "playing"]


(***************************************************************************)
(* Scoring.                                                                *)
(***************************************************************************)
\* the loop of cardPoints: for (i = 1; i < sorted.length; i += 1)
RECURSIVE RunsLoop(_, _, _, _)
RunsLoop(sorted, i, runs, currentRun) ==
    IF i < Len(sorted)
    THEN LET card == sorted[i + 1]
             prv  == sorted[i]
         IN  IF card = prv + 1
             THEN RunsLoop(sorted, i + 1, runs, Append(currentRun, card))
             ELSE RunsLoop(sorted, i + 1, Append(runs, currentRun), <<card>>)
    ELSE Append(runs, currentRun)

\* the reduce that counts the highest card of each run instead of the lowest
RECURSIVE SumOfHeads_Last(_)
SumOfHeads_Last(runs) ==
    IF runs = <<>> THEN 0
    ELSE Head(runs)[Len(Head(runs))] + SumOfHeads_Last(Tail(runs))

\* runs.reduce((acc, run) => acc + run[0], 0)
RECURSIVE SumOfHeads(_)
SumOfHeads(runs) ==
    IF runs = <<>> THEN 0 ELSE Head(runs)[1] + SumOfHeads(Tail(runs))

\* cardPoints that walks the cards in the order given, without sorting them
cardPoints_Unsorted(cards) ==
    IF Len(cards) = 0 THEN [total |-> 0, runs |-> <<>>]
    ELSE LET runs == RunsLoop(cards, 1, <<>>, <<cards[1]>>)
         IN  [total |-> SumOfHeads(runs), runs |-> runs]

cardPoints(cards) ==
    IF Len(cards) = 0 THEN [total |-> 0, runs |-> <<>>]
    ELSE LET sorted == SortAsc(cards)
             runs   == RunsLoop(sorted, 1, <<>>, <<sorted[1]>>)
         IN  [total |-> SumOfHeads(runs), runs |-> runs]

\* the map callback with the sign of the chips flipped
ScoreEntry_AddsChips(p) ==
    LET cp         == cardPoints(p.cards)
        chipPoints == p.chips
        final      == cp.total + chipPoints
    IN  [playerId   |-> p.id,
         name       |-> p.name,
         total      |-> final,
         cardPoints |-> cp.total,
         chipPoints |-> chipPoints,
         runs       |-> cp.runs]

\* the callback of players.map in computeScores
ScoreEntry(p) ==
    LET cp         == cardPoints(p.cards)
        chipPoints == p.chips
        final      == cp.total - chipPoints
    IN  [playerId   |-> p.id,
         name       |-> p.name,
         total      |-> final,
         cardPoints |-> cp.total,
         chipPoints |-> chipPoints,
         runs       |-> cp.runs]

\* an unstable sort: e goes before the entries with the same total
RECURSIVE InsertByTotal_BeforeEquals(_, _)
InsertByTotal_BeforeEquals(s, e) ==
    IF s = <<>> THEN <<e>>
    ELSE IF e.total <= Head(s).total THEN <<e>> \o s
    ELSE <<Head(s)>> \o InsertByTotal_BeforeEquals(Tail(s), e)

\* Array.prototype.sort is stable: e goes after the entries with total <= e.total
RECURSIVE InsertByTotal(_, _)
InsertByTotal(s, e) ==
    IF s = <<>> THEN <<e>>
    ELSE IF e.total < Head(s).total THEN <<e>> \o s
    ELSE <<Head(s)>> \o InsertByTotal(Tail(s), e)

\* the score table left in turn order
SortByTotal_Unsorted(s) == s

\* .sort((a, b) => a.total - b.total)
RECURSIVE SortByTotal(_)
SortByTotal(s) ==
    IF s = <<>> THEN <<>>
    ELSE InsertByTotal(SortByTotal(SubSeq(s, 1, Len(s) - 1)), s[Len(s)])

computeScores(players) ==
    SortByTotal([i \in 1..Len(players) |-> ScoreEntry(players[i])])

(***************************************************************************)
(* Turn transitions.  state.players[state.currentPlayerIndex] is undefined *)
(* when the index is not below players.length, and reading .chips of       *)
(* undefined throws a TypeError.                                           *)
(***************************************************************************)
HasActivePlayer(s) == s.currentPlayerIndex < Len(s.players)

getActivePlayer(s) == s.players[s.currentPlayerIndex + 1]

\* nextPlayerIndex without the wrap-around
nextPlayerIndex_NoWrap(s) == s.currentPlayerIndex + 1

nextPlayerIndex(s) == (s.currentPlayerIndex + 1) % Len(s.players)

\* what a call yields when it throws instead of returning a state
TypeError == [threw |-> "TypeError"]

\* passCard with the chip test off by one: a player with 0 chips still pays
passCard_AllowsDebt(s) ==
    IF s.status # "playing" \/ s.activeCard = Null THEN s
    ELSE IF ~HasActivePlayer(s) THEN TypeError
    ELSE LET player == getActivePlayer(s)
         IN  IF player.chips < 0 THEN s
             ELSE [s EXCEPT !.players[s.currentPlayerIndex + 1].chips = @ - 1,
                            !.chipsOnCard = s.chipsOnCard + 1,
                            !.currentPlayerIndex = nextPlayerIndex(s)]

\* passCard without the status / active-card guard of its first line
passCard_NoStatusGuard(s) ==
    IF ~HasActivePlayer(s) THEN TypeError
    ELSE LET player == getActivePlayer(s)
         IN  IF player.chips <= 0 THEN s
             ELSE [s EXCEPT !.players[s.currentPlayerIndex + 1].chips = @ - 1,
                            !.chipsOnCard = s.chipsOnCard + 1,
                            !.currentPlayerIndex = nextPlayerIndex(s)]

\* the state passCard returns, or TypeError: player is undefined when the
\* index is out of range, and player.chips then throws
passCard(s) ==
    IF s.status # "playing" \/ s.activeCard = Null THEN s
    ELSE IF ~HasActivePlayer(s) THEN TypeError
    ELSE LET player == getActivePlayer(s)
         IN  IF player.chips <= 0 THEN s
             ELSE LET updatedPlayers ==
                         [idx \in 1..Len(s.players) |->
                            IF idx - 1 = s.currentPlayerIndex
                            THEN [s.players[idx] EXCEPT !.chips = @ - 1]
                            ELSE s.players[idx]]
                  IN  [s EXCEPT !.players = updatedPlayers,
                                !.chipsOnCard = s.chipsOnCard + 1,
                                !.currentPlayerIndex = nextPlayerIndex(s)]

\* { ...state, status: 'done', scores }
WithScores(s, scores) ==
    [players            |-> s.players,
     deck               |-> s.deck,
     removed            |-> s.removed,
     activeCard         |-> s.activeCard,
     chipsOnCard        |-> s.chipsOnCard,
     currentPlayerIndex |-> s.currentPlayerIndex,
     status             |-> "done",
     scores             |-> scores]

\* endStateIfNeeded that stores the scores and leaves the status as it is
endStateIfNeeded_KeepsPlaying(s) ==
    IF s.activeCard # Null THEN s
    ELSE [WithScores(s, computeScores(s.players)) EXCEPT !.status = s.status]

endStateIfNeeded(s) ==
    IF s.activeCard # Null THEN s
    ELSE WithScores(s, computeScores(s.players))

\* takeCard that clears the chip pile without paying it to the taker
takeCard_BurnsPile(s) ==
    IF s.status # "playing" \/ s.activeCard = Null THEN s
    ELSE LET card == s.activeCard
             updatedPlayers ==
                 [idx \in 1..Len(s.players) |->
                    IF idx - 1 # s.currentPlayerIndex THEN s.players[idx]
                    ELSE [s.players[idx] EXCEPT
                            !.cards = SortAsc(Append(@, card))]]
             nextCard == IF s.deck = <<>> THEN Null ELSE s.deck[1]
             nextDeck == IF s.deck = <<>> THEN <<>> ELSE Tail(s.deck)
             updated  == [s EXCEPT !.players = updatedPlayers,
                                   !.activeCard = nextCard,
                                   !.deck = nextDeck,
                                   !.chipsOnCard = 0]
         IN  IF nextCard = Null
             THEN endStateIfNeeded([updated EXCEPT !.activeCard = Null])
             ELSE updated

\* takeCard that leaves the chip pile on the table
takeCard_KeepsPile(s) ==
    IF s.status # "playing" \/ s.activeCard = Null THEN s
    ELSE LET card == s.activeCard
             updatedPlayers ==
                 [idx \in 1..Len(s.players) |->
                    IF idx - 1 # s.currentPlayerIndex THEN s.players[idx]
                    ELSE [s.players[idx] EXCEPT
                            !.cards = SortAsc(Append(@, card)),
                            !.chips = @ + s.chipsOnCard]]
             nextCard == IF s.deck = <<>> THEN Null ELSE s.deck[1]
             nextDeck == IF s.deck = <<>> THEN <<>> ELSE Tail(s.deck)
             updated  == [s EXCEPT !.players = updatedPlayers,
                                   !.activeCard = nextCard,
                                   !.deck = nextDeck]
         IN  IF nextCard = Null
             THEN endStateIfNeeded([updated EXCEPT !.activeCard = Null])
             ELSE updated

takeCard(s) ==
    IF s.status # "playing" \/ s.activeCard = Null THEN s
    ELSE LET card == s.activeCard
             updatedPlayers ==
                 [idx \in 1..Len(s.players) |->
                    IF idx - 1 # s.currentPlayerIndex THEN s.players[idx]
                    ELSE [s.players[idx] EXCEPT
                            !.cards = SortAsc(Append(@, card)),
                            !.chips = @ + s.chipsOnCard]]
             nextCard == IF s.deck = <<>> THEN Null ELSE s.deck[1]
             nextDeck == IF s.deck = <<>> THEN <<>> ELSE Tail(s.deck)
             updated  == [s EXCEPT !.players = updatedPlayers,
                                   !.activeCard = nextCard,
                                   !.deck = nextDeck,
                                   !.chipsOnCard = 0,
                                   !.currentPlayerIndex = s.currentPlayerIndex]
         IN  IF nextCard = Null
             THEN endStateIfNeeded([updated EXCEPT !.activeCard = Null])
             ELSE updated

\* canPass with the chip test off by one
canPass_AtZero(s) ==
    s.status = "playing" /\ s.activeCard # Null /\ getActivePlayer(s).chips >= 0

\* canPass throws: the two first conjuncts hold and the active player is undefined
canPassThrows(s) ==
    s.status = "playing" /\ s.activeCard # Null /\ ~HasActivePlayer(s)

canPass(s) ==
    s.status = "playing" /\ s.activeCard # Null /\ getActivePlayer(s).chips > 0

\* canTake that also asks the active player for a chip
canTake_NeedsChips(s) ==
    s.status = "playing" /\ s.activeCard # Null /\ getActivePlayer(s).chips > 0

canTake(s) == s.status = "playing" /\ s.activeCard # Null

\* addAndScore that forgets the chips lying on the card
addAndScore_WithoutPile(player, card, chipsOnCard) ==
    LET hand       == Append(player.cards, card)
        total      == cardPoints(hand).total
        chipPoints == player.chips
    IN  [projectedScore |-> total - chipPoints]

addAndScore(player, card, chipsOnCard) ==
    LET hand       == Append(player.cards, card)
        total      == cardPoints(hand).total
        chipPoints == player.chips + chipsOnCard
    IN  [projectedScore |-> total - chipPoints]

(***************************************************************************)
(* The bot policy (game/bots.ts).  `chance` is the numerator of the value  *)
(* Math.random() returns: the value is chance / RandDen.                   *)
(***************************************************************************)
\* formsRun that looks for the card below only
formsRun_OnlyBelow(card, cards) ==
    (card - 1) \in Elems(cards)

formsRun(card, cards) ==
    (card - 1) \in Elems(cards) \/ (card + 1) \in Elems(cards)

\* the greedy rule that needs 5 chips on the card instead of 4
greedyRule_FiveChips(runLink, delta, chipsOnCard) ==
    IF runLink THEN "take"
    ELSE IF delta <= 2 THEN "take"
    ELSE IF chipsOnCard >= 5 THEN "take"
    ELSE "pass"

\* if (style === 'greedy') { ... }
greedyRule(runLink, delta, chipsOnCard) ==
    IF runLink THEN "take"
    ELSE IF delta <= 2 THEN "take"
    ELSE IF chipsOnCard >= 4 THEN "take"
    ELSE "pass"

\* the easy rule that flips its coin before it looks at the chips on the card
easyRule_CoinFirst(runLink, delta, chipsOnCard, chance) ==
    IF runLink /\ delta <= 3 THEN "take"
    ELSE IF 2 * chance > RandDen THEN "pass"
    ELSE "take"

\* the easy rule that needs more than 3 chips on the card
easyRule_FourChips(runLink, delta, chipsOnCard, chance) ==
    IF runLink /\ delta <= 3 THEN "take"
    ELSE IF chipsOnCard > 3 /\ 10 * chance > 3 * RandDen THEN "take"
    ELSE IF 2 * chance > RandDen THEN "pass" ELSE "take"

\* if (style === 'easy') { ... }
easyRule(runLink, delta, chipsOnCard, chance) ==
    IF runLink /\ delta <= 3 THEN "take"
    ELSE IF chipsOnCard >= 3 /\ 10 * chance > 3 * RandDen THEN "take"
    ELSE IF 2 * chance > RandDen THEN "pass" ELSE "take"

\* the standard rule with deck.length <= 6 in place of deck.length < 6
standardRule_DeckOfSix(runLink, delta, chipsOnCard, deckLength) ==
    IF delta <= 0 THEN "take"
    ELSE IF runLink /\ delta <= 3 THEN "take"
    ELSE IF deckLength <= 6 /\ delta <= 4 THEN "take"
    ELSE IF chipsOnCard >= 5 /\ delta <= 5 THEN "take"
    ELSE "pass"

\* // standard
standardRule(runLink, delta, chipsOnCard, deckLength) ==
    IF delta <= 0 THEN "take"
    ELSE IF runLink /\ delta <= 3 THEN "take"
    ELSE IF deckLength < 6 /\ delta <= 4 THEN "take"
    ELSE IF chipsOnCard >= 5 /\ delta <= 5 THEN "take"
    ELSE "pass"

\* what decideBotAction yields when player is undefined and player.chips throws
BotTypeError == "TypeError"

\* decideBotAction without the forced take of a player who has no chips
decideBotAction_NoChipCheck(s, style, chance) ==
    IF s.activeCard = Null THEN "take"
    ELSE IF ~HasActivePlayer(s) THEN BotTypeError
    ELSE LET player         == getActivePlayer(s)
             card           == s.activeCard
             baseCardPoints == cardPoints(player.cards).total
             baseScore      == baseCardPoints - player.chips
             projectedScore == addAndScore(player, card, s.chipsOnCard).projectedScore
             delta          == projectedScore - baseScore
             runLink        == formsRun(card, player.cards)
         IN  IF style = "greedy" THEN greedyRule(runLink, delta, s.chipsOnCard)
             ELSE IF style = "easy"
             THEN easyRule(runLink, delta, s.chipsOnCard, chance)
             ELSE standardRule(runLink, delta, s.chipsOnCard, Len(s.deck))

decideBotAction(s, style, chance) ==
    IF s.activeCard = Null THEN "take"
    ELSE IF ~HasActivePlayer(s) THEN BotTypeError
    ELSE LET player == getActivePlayer(s)
         IN  IF player.chips <= 0 THEN "take"
             ELSE LET card           == s.activeCard
                      baseCardPoints == cardPoints(player.cards).total
                      baseScore      == baseCardPoints - player.chips
                      projectedScore ==
                          addAndScore(player, card, s.chipsOnCard).projectedScore
                      delta          == projectedScore - baseScore
                      runLink        == formsRun(card, player.cards)
                  IN  IF style = "greedy"
                      THEN greedyRule(runLink, delta, s.chipsOnCard)
                      ELSE IF style = "easy"
                      THEN easyRule(runLink, delta, s.chipsOnCard, chance)
                      ELSE standardRule(runLink, delta, s.chipsOnCard, Len(s.deck))

(***************************************************************************)
(* The state machine: a match is created, then passCard and takeCard are   *)
(* called in any order, any number of times.                               *)
(***************************************************************************)
\* no pure function is being called directly
NoCall == [fn |-> "none"]
\* a call that has not returned yet / that has returned v
Pending == [done |-> FALSE]
Returned(v) == [done |-> TRUE, value |-> v]

\* no timeout is pending
NoTimer == [pending |-> FALSE]

\* the match createGame(ss) returns when Math.random() is the stream `seed`
InitGame(ss, seed) ==
    /\ setups = ss
    /\ prepared = prepareDeck(seed)
    /\ state = createGame(setups, prepared)
    /\ prev = state
    /\ lastOp = "create"
    /\ outcome = "returned"
    /\ passesOnCard = 0
    /\ takes = 0
    /\ handovers = 0

Init ==
    \E n \in 0..MaxPlayers, seed \in 0..MaxSeed :
        /\ InitGame(SetupList(n), seed)
        /\ call = NoCall
        /\ result = Pending
        /\ timer = NoTimer
        /\ effectDue = FALSE
        /\ fired = NoTimer

\* state = passCard(state), as handlePass and the bot timer do it
PassCard ==
    /\ prev' = state
    /\ lastOp' = "pass"
    /\ LET r == passCard(state)
       IN  IF r = TypeError
           THEN /\ outcome' = "threw"
                /\ UNCHANGED <<state, passesOnCard, handovers>>
           ELSE LET moved == r.currentPlayerIndex # state.currentPlayerIndex
                IN  /\ moved => handovers < MaxHandovers
                    /\ outcome' = "returned"
                    /\ state' = r
                    /\ passesOnCard' = IF r # state THEN passesOnCard + 1
                                       ELSE passesOnCard
                    /\ handovers' = IF moved THEN handovers + 1 ELSE handovers
    /\ UNCHANGED <<setups, prepared, takes>>
    /\ UNCHANGED <<pureVars, appVars>>

\* state = takeCard(state), as handleTake and the bot timer do it
TakeCard ==
    /\ prev' = state
    /\ lastOp' = "take"
    /\ outcome' = "returned"
    /\ LET r == takeCard(state)
       IN  /\ state' = r
           /\ passesOnCard' = IF r # state THEN 0 ELSE passesOnCard
           /\ takes' = IF r # state THEN takes + 1 ELSE takes
    /\ UNCHANGED <<setups, prepared, handovers>>
    /\ UNCHANGED <<pureVars, appVars>>

Next == PassCard \/ TakeCard

Spec == Init /\ [][Next]_vars

TypeOK ==
    /\ lastOp \in {"create", "pass", "take"}
    /\ outcome \in {"returned", "threw"}
    /\ state.status \in {"playing", "done"}

(***************************************************************************)
(* Vocabulary of the properties.                                           *)
(***************************************************************************)
\* the call just made was passCard / takeCard and it returned
Passed == lastOp = "pass" /\ outcome = "returned"
Took   == lastOp = "take" /\ outcome = "returned"

\* canPass evaluates to true / to false (it does neither when it throws)
CanPassTrue(s)  == ~canPassThrows(s) /\ canPass(s)
CanPassFalse(s) == ~canPassThrows(s) /\ ~canPass(s)

\* all hands, one after the other
RECURSIVE HandsOf(_)
HandsOf(players) ==
    IF players = <<>> THEN <<>>
    ELSE Head(players).cards \o HandsOf(Tail(players))

\* every card the state holds, with repetitions
AllCards(s) ==
    s.deck \o s.removed
           \o (IF s.activeCard # Null THEN <<s.activeCard>> ELSE <<>>)
           \o HandsOf(s.players)

IsAscending(s) == \A i \in 1..(Len(s) - 1) : s[i] < s[i + 1]

NoDuplicates(s) == Cardinality(Elems(s)) = Len(s)

(***************************************************************************)
(* C1.  In every reachable state the deck, the removed pile, the active    *)
(* card (when there is one) and the players' hands are pairwise disjoint   *)
(* and together hold every integer 3..35 exactly once, so their sizes add  *)
(* up to 33.                                                               *)
(***************************************************************************)
CardPartition ==
    /\ Elems(AllCards(state)) = 3..35
    /\ NoDuplicates(AllCards(state))
    /\ Len(state.deck) + Len(state.removed)
         + (IF state.activeCard # Null THEN 1 ELSE 0)
         + Len(HandsOf(state.players)) = 33

\* The same, for the matches that have at least one player.
CardPartitionSeated == Len(setups) >= 1 => CardPartition

\* C1 is seen to fail: takeCard has been applied to a match without players
CardDropped ==
    /\ Took /\ canTake(prev) /\ Len(prev.players) = 0
    /\ prev.activeCard \notin Elems(AllCards(state))

(***************************************************************************)
(* C2.  A passCard on a playing state with an active card and a current    *)
(* player who has chips takes exactly one chip from that player, puts      *)
(* exactly one chip on the card and moves the turn to the next seat        *)
(* (cyclically); the active card, the deck, the removed pile, the status,  *)
(* every hand and the other players' chips stay as they were.              *)
(***************************************************************************)
PassEffect ==
    (Passed /\ CanPassTrue(prev)) =>
        LET n   == Len(prev.players)
            cur == prev.currentPlayerIndex + 1
        IN  /\ Len(state.players) = n
            /\ state.players[cur].chips = prev.players[cur].chips - 1
            /\ state.chipsOnCard = prev.chipsOnCard + 1
            /\ state.currentPlayerIndex = (prev.currentPlayerIndex + 1) % n
            /\ state.activeCard = prev.activeCard
            /\ state.deck = prev.deck
            /\ state.removed = prev.removed
            /\ state.status = prev.status
            /\ \A i \in 1..n : state.players[i].cards = prev.players[i].cards
            /\ \A i \in (1..n) \ {cur} :
                   state.players[i].chips = prev.players[i].chips

\* a pass of the last seat has wrapped the turn around to seat 0
PassWrapped ==
    /\ Passed /\ CanPassTrue(prev)
    /\ Len(prev.players) >= 2
    /\ prev.currentPlayerIndex = Len(prev.players) - 1
    /\ state.currentPlayerIndex = 0

(***************************************************************************)
(* C3.  A takeCard on a playing state with an active card puts that card   *)
(* into the current player's hand (which stays ascending and without       *)
(* duplicates and loses no card), gives the player the chips on the card,  *)
(* resets chipsOnCard to 0, reveals the head of the deck as the new active *)
(* card (null if the deck was empty) and removes it from the deck; the     *)
(* turn, the removed pile and every other player stay as they were.        *)
(***************************************************************************)
TakeEffect ==
    (Took /\ canTake(prev)) =>
        LET n   == Len(prev.players)
            cur == prev.currentPlayerIndex + 1
        IN  /\ HasActivePlayer(prev)
            /\ Len(state.players) = n
            /\ Elems(state.players[cur].cards)
                 = Elems(prev.players[cur].cards) \cup {prev.activeCard}
            /\ Len(state.players[cur].cards) = Len(prev.players[cur].cards) + 1
            /\ IsAscending(state.players[cur].cards)
            /\ state.players[cur].chips
                 = prev.players[cur].chips + prev.chipsOnCard
            /\ state.chipsOnCard = 0
            /\ state.activeCard
                 = (IF prev.deck = <<>> THEN Null ELSE prev.deck[1])
            /\ state.deck = (IF prev.deck = <<>> THEN <<>> ELSE Tail(prev.deck))
            /\ state.currentPlayerIndex = prev.currentPlayerIndex
            /\ state.removed = prev.removed
            /\ \A i \in (1..n) \ {cur} : state.players[i] = prev.players[i]

\* The same, for the matches that have at least one player.
TakeEffectSeated == Len(setups) >= 1 => TakeEffect

\* C3 is seen to fail: a take that no player received
TakeWithoutTaker == Took /\ canTake(prev) /\ ~HasActivePlayer(prev)

(***************************************************************************)
(* C4.  passCard returns its argument unchanged exactly when canPass is    *)
(* false, takeCard returns its argument unchanged exactly when canTake is  *)
(* false; in every other case the state returned differs from the          *)
(* argument.                                                               *)
(***************************************************************************)
NoOpExactly ==
    /\ Passed => ((state = prev) <=> CanPassFalse(prev))
    /\ Took   => ((state = prev) <=> ~canTake(prev))

\* a pass refused for lack of chips, in a match that is still being played
PassRefusedNoChips ==
    /\ Passed /\ state = prev
    /\ canTake(prev)
    /\ getActivePlayer(prev).chips = 0

(***************************************************************************)
(* C5.  passCard and takeCard never throw: for a match created from any    *)
(* list of player setups, of any length, each call returns a state.        *)
(***************************************************************************)
NeverThrows == outcome = "returned"

(***************************************************************************)
(* C6.  A takeCard on a playing state whose deck is empty ends the match:  *)
(* status done, no active card, and a score table with one entry per       *)
(* player, in non-decreasing order of total.                               *)
(***************************************************************************)
LastTakeEnds ==
    (Took /\ canTake(prev) /\ prev.deck = <<>>) =>
        /\ state.status = "done"
        /\ state.activeCard = Null
        /\ "scores" \in DOMAIN state
        /\ Len(state.scores) = Len(state.players)
        /\ \A i \in 1..Len(state.players) :
               Cardinality({j \in 1..Len(state.scores) :
                              state.scores[j].playerId = state.players[i].id}) = 1
        /\ \A j \in 1..(Len(state.scores) - 1) :
               state.scores[j].total <= state.scores[j + 1].total

\* the last card has been taken, and the table does not open with seat 0
LastCardTaken ==
    /\ Took /\ canTake(prev) /\ prev.deck = <<>>
    /\ Len(state.players) >= 2
    /\ state.scores[1].playerId # state.players[1].id

(***************************************************************************)
(* C7.  The status goes from playing to done only by the takeCard that     *)
(* finds the deck empty, and never back: once the status is done, every    *)
(* passCard and takeCard returns the whole state, scores included, as it   *)
(* was (so the change happens at most once); a playing state has no        *)
(* scores.                                                                 *)
(***************************************************************************)
DoneIsFinal ==
    /\ (prev.status = "done") => (state = prev /\ "scores" \in DOMAIN state)
    /\ (prev.status = "playing" /\ state.status = "done") =>
           (Took /\ canTake(prev) /\ prev.deck = <<>>)
    /\ (state.status = "playing") => ("scores" \notin DOMAIN state)

\* passCard or takeCard has been called on a finished match
CalledAfterDone ==
    /\ prev.status = "done"
    /\ lastOp \in {"pass", "take"}
    /\ Len(state.players) >= 1

(***************************************************************************)
(* C8.  No player's chip count is ever negative; a player can get down to  *)
(* 0 chips, and passCard is then a no-op for that player.                  *)
(***************************************************************************)
ChipsNonNegative ==
    /\ \A i \in 1..Len(state.players) : state.players[i].chips >= 0
    /\ (Passed /\ canTake(prev) /\ HasActivePlayer(prev)
          /\ getActivePlayer(prev).chips = 0) => state = prev

\* the current player has passed down to 0 chips
PassedDownToZero ==
    /\ Passed /\ state # prev
    /\ prev.players[prev.currentPlayerIndex + 1].chips = 1
    /\ state.players[prev.currentPlayerIndex + 1].chips = 0

(***************************************************************************)
(* C9.  chipsOnCard is the number of state-changing passCard calls made    *)
(* since the active card was revealed; it is 0 right after createGame and  *)
(* right after every state-changing takeCard, and nothing else makes it 0. *)
(***************************************************************************)
ChipsOnCardCountsPasses ==
    /\ state.chipsOnCard = passesOnCard
    /\ lastOp = "create" => state.chipsOnCard = 0
    /\ (Took /\ state # prev) => state.chipsOnCard = 0
    /\ (state.chipsOnCard = 0 /\ prev.chipsOnCard # 0) => (Took /\ state # prev)

\* a card that carried chips has been taken
TookCardWithChips ==
    Took /\ state # prev /\ prev.chipsOnCard >= 2 /\ state.status = "playing"

(***************************************************************************)
(* C10.  createGame yields one player per setup, in the order given, each  *)
(* with 11 chips and no card; a removed pile of 9 cards; a deck of 23      *)
(* cards, none of them removed; an active card that is in neither;         *)
(* chipsOnCard 0, currentPlayerIndex 0 and status playing.  prepareDeck    *)
(* yields 9 removed and 24 deck cards, no card in both.                    *)
(***************************************************************************)
CreatedState ==
    /\ Len(prepared.removed) = 9
    /\ Len(prepared.deck) = 24
    /\ NoDuplicates(prepared.removed \o prepared.deck)
    /\ lastOp = "create" =>
        /\ Len(state.players) = Len(setups)
        /\ \A i \in 1..Len(setups) :
              /\ state.players[i].id = setups[i].id
              /\ state.players[i].name = setups[i].name
              /\ state.players[i].isHuman = setups[i].isHuman
              /\ state.players[i].chips = 11
              /\ state.players[i].cards = <<>>
        /\ Len(state.removed) = 9
        /\ Len(state.deck) = 23
        /\ state.activeCard # Null
        /\ NoDuplicates(state.removed \o state.deck \o <<state.activeCard>>)
        /\ state.chipsOnCard = 0
        /\ state.currentPlayerIndex = 0
        /\ state.status = "playing"

\* a match has just been created for three players
CreatedForThree ==
    /\ lastOp = "create"
    /\ Len(setups) = 3
    /\ state.players[3].id = "p3"

(***************************************************************************)
(* Direct calls of the pure functions.  The arguments are drawn in the     *)
(* initial state, the action applies the function.  The match of the       *)
(* module's other variables is not played in these specifications.         *)
(***************************************************************************)
IdleGame ==
    /\ InitGame(SetupList(1), 0)
    /\ timer = NoTimer /\ effectDue = FALSE /\ fired = NoTimer

\* the arrays that hold each card of S once, in any order
Perms(S) ==
    {f \in [1..Cardinality(S) -> S] : \A i, j \in DOMAIN f : i # j => f[i] # f[j]}

\* the hands of the engine's tests
TestHands == {<<27, 28, 29, 30, 10>>, <<10, 11, 12>>, <<10>>, <<10, 11>>}

\* the hands cardPoints is called with
CardInputs ==
    UNION {Perms(S) : S \in SUBSET (MIN_CARD..MaxInputCard)} \cup TestHands

InitCardPoints ==
    /\ IdleGame
    /\ \E cards \in CardInputs : call = [fn |-> "cardPoints", cards |-> cards]
    /\ result = Pending

\* cardPoints(cards)
CallCardPoints ==
    /\ call.fn = "cardPoints"
    /\ result = Pending
    /\ result' = Returned(cardPoints(call.cards))
    /\ UNCHANGED <<gameVars, appVars, call>>

SpecCardPoints == InitCardPoints /\ [][CallCardPoints]_vars

\* cardPoints(call.cards) has returned r
CardPointsReturned == call.fn = "cardPoints" /\ result.done

RECURSIVE SetSum(_)
SetSum(S) ==
    IF S = {} THEN 0
    ELSE LET x == CHOOSE y \in S : TRUE IN x + SetSum(S \ {x})

RECURSIVE Flatten(_)
Flatten(ss) == IF ss = <<>> THEN <<>> ELSE Head(ss) \o Flatten(Tail(ss))

\* the cards of S that open a block of consecutive cards
RunStarts(S) == {c \in S : c - 1 \notin S}

(***************************************************************************)
(* C11.  For distinct cards in any order, the runs cardPoints returns are  *)
(* the maximal blocks of consecutive integers of the sorted cards, in      *)
(* ascending order, and the total is the sum of the lowest card of each    *)
(* run; the empty hand gives total 0 and no runs.                          *)
(***************************************************************************)
RunsArePartition ==
    CardPointsReturned =>
        LET S    == Elems(call.cards)
            runs == result.value.runs
        IN  /\ Elems(Flatten(runs)) = S
            /\ IsAscending(Flatten(runs))
            /\ \A j \in 1..Len(runs) :
                  /\ Len(runs[j]) >= 1
                  /\ \A i \in 1..(Len(runs[j]) - 1) : runs[j][i + 1] = runs[j][i] + 1
            /\ \A j \in 1..(Len(runs) - 1) :
                  runs[j + 1][1] > runs[j][Len(runs[j])] + 1
            /\ result.value.total = SetSum(RunStarts(S))
            /\ (call.cards = <<>>) =>
                  (result.value.total = 0 /\ runs = <<>>)

\* the hand of the test has been scored: 37 points in the runs 10 and 27..30
ScoredTestHand ==
    /\ CardPointsReturned
    /\ call.cards = <<27, 28, 29, 30, 10>>
    /\ result.value = [total |-> 37, runs |-> <<<<10>>, <<27, 28, 29, 30>>>>]

(***************************************************************************)
(* C12.  Extending a run upward is free: if c is not in the hand, c - 1 is *)
(* and c + 1 is not, the hand with c scores the same total as the hand     *)
(* without it; a hand that is one block of consecutive cards scores its    *)
(* lowest card.                                                            *)
(***************************************************************************)
RunExtensionIsFree ==
    CardPointsReturned =>
        LET S == Elems(call.cards)
        IN  /\ \A c \in MIN_CARD..MAX_CARD :
                  (c \notin S /\ c - 1 \in S /\ c + 1 \notin S) =>
                      /\ cardPoints(Append(call.cards, c)).total = result.value.total
                      /\ cardPoints(<<c>> \o call.cards).total = result.value.total
            /\ (S # {} /\ \A c \in S : c - 1 \in S \/ \A d \in S : c <= d) =>
                  \A c \in S : (\A d \in S : c <= d) => result.value.total = c

\* a block of three cards has been scored as its lowest card
ScoredBlock ==
    /\ CardPointsReturned
    /\ call.cards = <<10, 11, 12>>
    /\ result.value.total = 10
    /\ cardPoints(<<10>>).total = 10

(***************************************************************************)
(* Direct calls of computeScores.                                          *)
(***************************************************************************)
\* the ascending array of the cards of S
RECURSIVE AscendingOf(_)
AscendingOf(S) ==
    IF S = {} THEN <<>>
    ELSE LET m == CHOOSE x \in S : \A y \in S : x <= y
         IN  <<m>> \o AscendingOf(S \ {m})

\* the players seat i can be, with the chips and the hand they hold
ScorePlayers(i) ==
    {[chips |-> c, cards |-> AscendingOf(S)] @@ Seat(i) :
        c \in 0..MaxScoreChips, S \in SUBSET (MIN_CARD..MaxScoreCard)}

\* the player list of the test "chip count reduces final score"
TestPlayers ==
    <<[id |-> "p1", name |-> "A", isHuman |-> TRUE, chips |-> 12,
       cards |-> <<10, 11>>]>>

\* the lists of n players, seat i being one of ScorePlayers(i)
RECURSIVE ScoreLists(_)
ScoreLists(n) ==
    IF n = 0 THEN {<<>>}
    ELSE {Append(ps, p) : ps \in ScoreLists(n - 1), p \in ScorePlayers(n)}

ScoreInputs ==
    UNION {ScoreLists(n) : n \in 0..MaxScorePlayers} \cup {TestPlayers}

InitScores ==
    /\ IdleGame
    /\ \E ps \in ScoreInputs : call = [fn |-> "computeScores", players |-> ps]
    /\ result = Pending

\* computeScores(players)
CallComputeScores ==
    /\ call.fn = "computeScores"
    /\ result = Pending
    /\ result' = Returned(computeScores(call.players))
    /\ UNCHANGED <<gameVars, appVars, call>>

SpecScores == InitScores /\ [][CallComputeScores]_vars

ScoresReturned == call.fn = "computeScores" /\ result.done

\* the 1-based place of the player with this id in the list
PlaceOf(players, id) == CHOOSE i \in 1..Len(players) : players[i].id = id

(***************************************************************************)
(* C13.  computeScores returns exactly one entry per player, with          *)
(* cardPoints the total of the player's hand, chipPoints the player's      *)
(* chips and total = cardPoints - chipPoints.                              *)
(***************************************************************************)
ScoreEntriesRight ==
    ScoresReturned =>
        LET ps == call.players
            sc == result.value
        IN  /\ Len(sc) = Len(ps)
            /\ \A i \in 1..Len(ps) :
                  /\ Cardinality({j \in 1..Len(sc) : sc[j].playerId = ps[i].id}) = 1
                  /\ \A j \in 1..Len(sc) :
                        sc[j].playerId = ps[i].id =>
                            /\ sc[j].name = ps[i].name
                            /\ sc[j].cardPoints = SetSum(RunStarts(Elems(ps[i].cards)))
                            /\ sc[j].chipPoints = ps[i].chips
                            /\ sc[j].total = sc[j].cardPoints - sc[j].chipPoints

\* the player of the test, 12 chips and the run 10 11, has been scored -2
ScoredTestPlayer ==
    /\ ScoresReturned
    /\ call.players = TestPlayers
    /\ result.value[1].total = 0 - 2
    /\ result.value[1].cardPoints = 10
    /\ result.value[1].chipPoints = 12

(***************************************************************************)
(* C14.  The table computeScores returns is in non-decreasing order of     *)
(* total, so its first entry has the minimum total, and entries with equal *)
(* totals keep the order their players have in the input list.             *)
(***************************************************************************)
ScoresSortedStable ==
    ScoresReturned =>
        LET ps == call.players
            sc == result.value
        IN  /\ \A j \in 1..(Len(sc) - 1) : sc[j].total <= sc[j + 1].total
            /\ \A j \in 1..Len(sc) : sc[1].total <= sc[j].total
            /\ \A j, k \in 1..Len(sc) :
                  (j < k /\ sc[j].total = sc[k].total) =>
                      PlaceOf(ps, sc[j].playerId) < PlaceOf(ps, sc[k].playerId)

\* a table has been returned whose two first entries tie, in turn order
ScoredTie ==
    /\ ScoresReturned
    /\ Len(result.value) >= 2
    /\ result.value[1].total = result.value[2].total
    /\ result.value[1].playerId = call.players[1].id
    /\ result.value[2].playerId = call.players[2].id

(***************************************************************************)
(* C15.  For the acting player and the active card of a playing state,     *)
(* addAndScore projects cardPoints(hand with the card) - (chips +          *)
(* chipsOnCard), and that is the total computeScores gives the player on   *)
(* the state takeCard returns.                                             *)
(***************************************************************************)
ProjectionIsScoreAfterTake ==
    (Took /\ canTake(prev) /\ HasActivePlayer(prev)) =>
        LET player    == getActivePlayer(prev)
            projected == addAndScore(player, prev.activeCard,
                                     prev.chipsOnCard).projectedScore
            table     == computeScores(state.players)
        IN  /\ projected
                 = SetSum(RunStarts(Elems(player.cards) \cup {prev.activeCard}))
                     - (player.chips + prev.chipsOnCard)
            /\ \A j \in 1..Len(table) :
                  table[j].playerId = player.id => table[j].total = projected
            /\ state.status = "done" =>
                  \A j \in 1..Len(state.scores) :
                      state.scores[j].playerId = player.id =>
                          state.scores[j].total = projected

\* a player who held cards has taken a card that carried chips
TookWithHandAndPile ==
    /\ Took /\ canTake(prev) /\ HasActivePlayer(prev)
    /\ prev.chipsOnCard >= 1
    /\ Len(getActivePlayer(prev).cards) >= 2

(***************************************************************************)
(* Direct calls of decideBotAction.  The state is drawn in the initial     *)
(* state; the action calls the policy for every style and, for the random  *)
(* branch of easy, for every value of Math.random() in ChanceValues.       *)
(***************************************************************************)
Styles == {"easy", "standard", "greedy"}

\* values of Math.random() on both sides of 0.3 and of 0.5, and the extremes
ChanceValues ==
    {0, (3 * RandDen) \div 10, (3 * RandDen) \div 10 + 1,
     RandDen \div 2, RandDen \div 2 + 1, RandDen - 1}

\* a deck of n cards, none of them in MIN_CARD..MaxBotCard
BotDeck(n) == [i \in 1..n |-> MAX_CARD + 1 - i]

\* a playing state: seat 1 waits, seat 2 acts with the hand H and `chips`
BotState(H, card, chips, pile, deckLength) ==
    [players            |-> <<[chips |-> STARTING_CHIPS, cards |-> <<>>] @@ Seat(1),
                              [chips |-> chips, cards |-> AscendingOf(H)] @@ Seat(2)>>,
     deck               |-> BotDeck(deckLength),
     removed            |-> <<>>,
     activeCard         |-> card,
     chipsOnCard        |-> pile,
     currentPlayerIndex |-> 1,
     status             |-> "playing"]

\* the hands of the acting player
BotHands == {H \in SUBSET (MIN_CARD..MaxBotCard) : Cardinality(H) <= MaxBotHand}

\* the matches without players, with a card to decide on and without
EmptyTables ==
    {createGame(<<>>, [deck |-> BotDeck(6), removed |-> <<>>]),
     createGame(<<>>, [deck |-> <<>>, removed |-> <<>>])}

\* the states the policy is called with: the active card is not in the hand
InitBot ==
    /\ IdleGame
    /\ result = Pending
    /\ \/ \E H \in BotHands, chips \in 0..MaxBotChips,
             pile \in 0..MaxBotPile, n \in {5, 6} :
             \E card \in ({Null} \cup (MIN_CARD..MaxBotCard)) \ H :
                call = [fn |-> "decideBotAction",
                        state |-> BotState(H, card, chips, pile, n)]
       \/ \E s \in EmptyTables : call = [fn |-> "decideBotAction", state |-> s]

\* decideBotAction(state, style), for each style and each random value
CallDecideBotAction ==
    /\ call.fn = "decideBotAction"
    /\ result = Pending
    /\ result' = Returned([sc \in Styles \X ChanceValues |->
                             decideBotAction(call.state, sc[1], sc[2])])
    /\ UNCHANGED <<gameVars, appVars, call>>

SpecBot == InitBot /\ [][CallDecideBotAction]_vars

BotReturned == call.fn = "decideBotAction" /\ result.done

\* what the policy returned for this style and this random value
Decision(style, chance) == result.value[<<style, chance>>]

\* the policy gets past its two forced takes
Deciding(s) ==
    s.activeCard # Null /\ HasActivePlayer(s) /\ getActivePlayer(s).chips > 0

\* delta = projectedScore - (cardPoints(hand).total - chips), on sets of cards
DeltaOf(s) ==
    LET H == Elems(getActivePlayer(s).cards)
    IN  (SetSum(RunStarts(H \cup {s.activeCard}))
            - (getActivePlayer(s).chips + s.chipsOnCard))
          - (SetSum(RunStarts(H)) - getActivePlayer(s).chips)

\* runLink: activeCard - 1 or activeCard + 1 is in the hand
RunLinkOf(s) ==
    LET H == Elems(getActivePlayer(s).cards)
    IN  (s.activeCard - 1) \in H \/ (s.activeCard + 1) \in H

(***************************************************************************)
(* C16.  For every state and style, decideBotAction returns take when      *)
(* there is no active card or when the acting player has 0 chips; so, in a *)
(* playing state, a pass decision implies canPass.                         *)
(***************************************************************************)
ForcedTake ==
    BotReturned =>
        LET s == call.state
        IN  \A sc \in Styles \X ChanceValues :
               /\ s.activeCard = Null => Decision(sc[1], sc[2]) = "take"
               /\ (HasActivePlayer(s) /\ getActivePlayer(s).chips = 0) =>
                      Decision(sc[1], sc[2]) = "take"
               /\ (s.status = "playing" /\ Decision(sc[1], sc[2]) = "pass") =>
                      CanPassTrue(s)

\* a player without chips was shown a card that every style passes otherwise
DecidedWithoutChips ==
    /\ BotReturned
    /\ call.state.activeCard = MaxBotCard
    /\ HasActivePlayer(call.state)
    /\ getActivePlayer(call.state).chips = 0
    /\ getActivePlayer(call.state).cards = <<>>
    /\ call.state.chipsOnCard = 0
    /\ Len(call.state.deck) = 6
    /\ \A sc \in Styles \X ChanceValues : Decision(sc[1], sc[2]) = "take"

(***************************************************************************)
(* C17.  Style standard, with an active card and an acting player who has  *)
(* chips: take exactly when delta <= 0, or runLink and delta <= 3, or      *)
(* fewer than 6 cards in the deck and delta <= 4, or at least 5 chips on   *)
(* the card and delta <= 5; pass otherwise.                                *)
(***************************************************************************)
StandardRule ==
    (BotReturned /\ Deciding(call.state)) =>
        LET s     == call.state
            delta == DeltaOf(s)
            take  == \/ delta <= 0
                     \/ RunLinkOf(s) /\ delta <= 3
                     \/ Len(s.deck) < 6 /\ delta <= 4
                     \/ s.chipsOnCard >= 5 /\ delta <= 5
        IN  \A v \in ChanceValues :
               Decision("standard", v) = (IF take THEN "take" ELSE "pass")

\* standard took a card only because 5 chips lay on it
StandardTookForPile ==
    /\ BotReturned /\ Deciding(call.state)
    /\ DeltaOf(call.state) = 5
    /\ call.state.chipsOnCard = 5
    /\ Len(call.state.deck) = 6
    /\ ~RunLinkOf(call.state)
    /\ Decision("standard", 0) = "take"

(***************************************************************************)
(* C18.  Style greedy, with an active card and an acting player who has    *)
(* chips: take exactly when runLink holds, or delta <= 2, or at least 4    *)
(* chips lie on the card; pass otherwise.                                  *)
(***************************************************************************)
GreedyRule ==
    (BotReturned /\ Deciding(call.state)) =>
        LET s    == call.state
            take == RunLinkOf(s) \/ DeltaOf(s) <= 2 \/ s.chipsOnCard >= 4
        IN  \A v \in ChanceValues :
               Decision("greedy", v) = (IF take THEN "take" ELSE "pass")

\* greedy took a card only because 4 chips lay on it
GreedyTookForPile ==
    /\ BotReturned /\ Deciding(call.state)
    /\ ~RunLinkOf(call.state)
    /\ DeltaOf(call.state) > 2
    /\ call.state.chipsOnCard = 4
    /\ Decision("greedy", 0) = "take"

(***************************************************************************)
(* C19.  Style easy, with an active card and an acting player who has      *)
(* chips: take if runLink and delta <= 3; otherwise, with v the random     *)
(* value, take if at least 3 chips lie on the card and v > 0.3, otherwise  *)
(* take if v <= 0.5, and pass otherwise.                                   *)
(***************************************************************************)
EasyRule ==
    (BotReturned /\ Deciding(call.state)) =>
        LET s == call.state
        IN  \A v \in ChanceValues :
               Decision("easy", v) =
                  (IF RunLinkOf(s) /\ DeltaOf(s) <= 3 THEN "take"
                   ELSE IF s.chipsOnCard >= 3 /\ 10 * v > 3 * RandDen THEN "take"
                   ELSE IF 2 * v <= RandDen THEN "take"
                   ELSE "pass")

\* easy, with 3 chips on a card that links no run, took at 0.51 where it
\* would have passed with 2 chips
EasyTookForPile ==
    /\ BotReturned /\ Deciding(call.state)
    /\ ~RunLinkOf(call.state)
    /\ call.state.chipsOnCard = 3
    /\ Decision("easy", RandDen \div 2 + 1) = "take"
    /\ Decision("easy", RandDen \div 2) = "take"
    /\ easyRule(FALSE, DeltaOf(call.state), 2, RandDen \div 2 + 1) = "pass"

(***************************************************************************)
(* The App: the match is held in the React state `game`.  The buttons call *)
(* handlePass and handleTake for the active human, Restart and the setup   *)
(* screen call startGame, and the effect on [game] arms a timeout for the  *)
(* active bot.  The cleanup of the effect clears the timeout; a timeout    *)
(* that expires after `game` has changed and before the effect has rerun   *)
(* still runs its callback, on the current `game`.                         *)
(***************************************************************************)
\* a table of the setup screen with every "Human?" box unchecked: seat 1
\* keeps no botStyle, seat 2 is set to greedy and seat 3 to easy
BotTable(n) ==
    [i \in 1..n |->
        IF i = 1 THEN [id |-> "p1", name |-> "You", isHuman |-> FALSE]
        ELSE IF i = 2 THEN [id |-> "p2", name |-> "Friend", isHuman |-> FALSE,
                            botStyle |-> "greedy"]
        ELSE IF i = 3 THEN [id |-> "p3", name |-> "Bot A", isHuman |-> FALSE,
                            botStyle |-> "easy"]
        ELSE Seat(i)]

\* the tables the App is started with: the default one and the one of bots,
\* with 3 seats or more
AppTables == {SetupList(n) : n \in 3..MaxPlayers} \cup {BotTable(n) : n \in 3..MaxPlayers}

\* active.botStyle ?? 'standard'
StyleOf(player) ==
    IF "botStyle" \in DOMAIN player THEN player.botStyle ELSE "standard"

\* the timeout the effect arms for the match s: none unless a bot is to act
armTimer(s, chance) ==
    IF s.status # "playing" THEN NoTimer
    ELSE IF getActivePlayer(s).isHuman THEN NoTimer
    ELSE [pending  |-> TRUE,
          choice   |-> decideBotAction(s, StyleOf(getActivePlayer(s)), chance),
          activeId |-> getActivePlayer(s).id]

\* the callback that applies the choice whoever is active now
timerUpdater_NoIdCheck(current, t) ==
    IF current.status # "playing" THEN current
    ELSE LET action == IF t.choice = "pass" /\ ~canPass(current) THEN "take"
                       ELSE t.choice
         IN  IF action = "pass" THEN passCard(current) ELSE takeCard(current)

\* the function the callback of the timeout t hands to setGame
timerUpdater(current, t) ==
    IF current.status # "playing" THEN current
    ELSE IF getActivePlayer(current).id # t.activeId THEN current
    ELSE LET action == IF t.choice = "pass" /\ ~canPass(current) THEN "take"
                       ELSE t.choice
         IN  IF action = "pass" THEN passCard(current) ELSE takeCard(current)

InitApp ==
    \E ss \in AppTables, seed \in 0..MaxSeed :
        /\ InitGame(ss, seed)
        /\ call = NoCall
        /\ result = Pending
        /\ timer = NoTimer
        /\ effectDue = TRUE
        /\ fired = NoTimer

\* the history of a match after `game` has become r
Played(r) ==
    /\ prev' = state
    /\ outcome' = "returned"
    /\ r.currentPlayerIndex # state.currentPlayerIndex => handovers < MaxHandovers
    /\ state' = r
    /\ handovers' = IF r.currentPlayerIndex # state.currentPlayerIndex
                    THEN handovers + 1 ELSE handovers
    /\ passesOnCard' = IF r = state THEN passesOnCard
                       ELSE IF r.activeCard = state.activeCard THEN passesOnCard + 1
                       ELSE 0
    /\ takes' = IF r # state /\ r.activeCard # state.activeCard
                THEN takes + 1 ELSE takes
    /\ UNCHANGED <<setups, prepared>>

\* the Pass button, enabled for the active human who can pass
HandlePass ==
    /\ getActivePlayer(state).isHuman /\ state.status = "playing"
    /\ canPass(state)
    /\ lastOp' = "pass"
    /\ Played(passCard(state))
    /\ effectDue' = TRUE
    /\ UNCHANGED <<pureVars, timer, fired>>

\* the Take button, enabled for the active human
HandleTake ==
    /\ getActivePlayer(state).isHuman /\ state.status = "playing"
    /\ canTake(state)
    /\ lastOp' = "take"
    /\ Played(takeCard(state))
    /\ effectDue' = TRUE
    /\ UNCHANGED <<pureVars, timer, fired>>

\* what prepareDeck() returns for each stream of Math.random()
PreparedDecks == [seed \in 0..MaxSeed |-> prepareDeck(seed)]

\* startGame(setups): setGame(createGame(setups))
StartGame(ss) ==
    /\ \E seed \in 0..MaxSeed :
          /\ setups' = ss
          /\ prepared' = PreparedDecks[seed]
          /\ state' = createGame(ss, PreparedDecks[seed])
          /\ prev' = createGame(ss, PreparedDecks[seed])
    /\ outcome' = "returned"
    /\ passesOnCard' = 0
    /\ takes' = 0
    /\ handovers' = 0
    /\ effectDue' = TRUE
    /\ UNCHANGED <<pureVars, timer, fired>>

\* the Restart button: startGame(lastSetups)
Rematch ==
    /\ lastOp' = "create"
    /\ StartGame(setups)

\* Home, then Start game on the setup screen with another table
StartFromSetup ==
    /\ lastOp' = "create"
    /\ \E ss \in AppTables \ {setups} : StartGame(ss)

\* the effect on [game]: its cleanup clears the timeout, its body arms one
BotEffect ==
    /\ effectDue
    /\ effectDue' = FALSE
    /\ \E chance \in ChanceValues : timer' = armTimer(state, chance)
    /\ UNCHANGED <<gameVars, pureVars, fired>>

\* the timeout expires and its callback calls setGame.  When the effect of
\* the last change of `game` is still due, React may run it before it
\* applies the function: the expired timeout is cleared and one is armed
\* for the current match.
BotTimerFires ==
    /\ timer.pending
    /\ fired' = timer
    /\ lastOp' = "timer"
    /\ Played(timerUpdater(state, timer))
    /\ \/ /\ timer' = NoTimer
          /\ effectDue' = (effectDue \/ state' # state)
       \/ /\ effectDue
          /\ \E chance \in ChanceValues : timer' = armTimer(state, chance)
          /\ effectDue' = (state' # state)
    /\ UNCHANGED pureVars

NextApp ==
    \/ HandlePass
    \/ HandleTake
    \/ Rematch
    \/ StartFromSetup
    \/ BotEffect
    \/ BotTimerFires

SpecApp == InitApp /\ [][NextApp]_vars

\* the callback of a timeout has just run
TimerFired == lastOp = "timer"

\* when it ran, the match was playing and the bot of the timeout was active
StillItsTurn ==
    /\ prev.status = "playing"
    /\ getActivePlayer(prev).id = fired.activeId

StaleTimerIgnored ==
    /\ TimerFired
    /\ prev.status = "playing"
    /\ getActivePlayer(prev).id # fired.activeId
    /\ state = prev

(***************************************************************************)
(* C21.  In every state reached from createGame with n players by passCard *)
(* and takeCard, the chips of all players plus the chips on the card are   *)
(* 11 * n; so the chips on the card never exceed 11 * n, and at done the   *)
(* players hold all 11 * n chips.                                          *)
(***************************************************************************)
RECURSIVE ChipsOf(_)
ChipsOf(players) ==
    IF players = <<>> THEN 0 ELSE Head(players).chips + ChipsOf(Tail(players))

ChipsConserved ==
    LET all == STARTING_CHIPS * Len(setups)
    IN  /\ Len(state.players) = Len(setups)
        /\ ChipsOf(state.players) + state.chipsOnCard = all
        /\ state.chipsOnCard <= all
        /\ state.status = "done" => ChipsOf(state.players) = all

\* a match has ended in which a player took a card with chips of another
\* player on it
EndedWithChipsMoved ==
    /\ state.status = "done"
    /\ \E i \in 1..Len(state.players) : state.players[i].chips > STARTING_CHIPS
    /\ \E i \in 1..Len(state.players) : state.players[i].chips < STARTING_CHIPS

(***************************************************************************)
(* C22.  In every state reached from createGame by passCard and takeCard,  *)
(* the status is playing exactly when there is an active card; so canTake  *)
(* holds in every playing state, and in the done state the deck is empty   *)
(* and there is no active card.                                            *)
(***************************************************************************)
PlayingIffCard ==
    /\ state.status = "playing" <=> state.activeCard # Null
    /\ state.status = "playing" => canTake(state)
    /\ state.status = "done" => (state.deck = <<>> /\ state.activeCard = Null)

\* the last card is on the table: the deck is empty and the match still plays
PlayingOnLastCard ==
    /\ state.status = "playing"
    /\ state.deck = <<>>
    /\ state.activeCard # Null
    /\ canTake(state)
    /\ takes = Len(prepared.deck) - 1

(***************************************************************************)
(* A match played to its end: a caller that holds the state and keeps      *)
(* applying an action that changes it, passCard when canPass and takeCard  *)
(* when canTake, as the buttons and the bot timer of the App do.  The      *)
(* fairness condition is that caller: while one of the two can be applied, *)
(* one of them eventually is.  It is written on the two counters of the    *)
(* history: a step of the caller is a step that counts a take or a pass,   *)
(* and one is possible exactly when canTake holds (canPass implies it).    *)
(***************************************************************************)
InitLive ==
    \E n \in 1..MaxPlayers :
        /\ InitGame(SetupList(n), 0)
        /\ call = NoCall
        /\ result = Pending
        /\ timer = NoTimer
        /\ effectDue = FALSE
        /\ fired = NoTimer

\* state = passCard(state), applied when canPass(state)
LivePass ==
    /\ canPass(state)
    /\ passCard(state).currentPlayerIndex # state.currentPlayerIndex =>
          takes < MaxPassedCards
    /\ prev' = state
    /\ lastOp' = "pass"
    /\ outcome' = "returned"
    /\ state' = passCard(state)
    /\ passesOnCard' = passesOnCard + 1
    /\ handovers' = IF state'.currentPlayerIndex # state.currentPlayerIndex
                    THEN handovers + 1 ELSE handovers
    /\ UNCHANGED <<setups, prepared, takes>>
    /\ UNCHANGED <<pureVars, appVars>>

\* state = takeCard(state), applied when canTake(state)
LiveTake ==
    /\ canTake(state)
    /\ prev' = state
    /\ lastOp' = "take"
    /\ outcome' = "returned"
    /\ state' = takeCard(state)
    /\ passesOnCard' = 0
    /\ takes' = takes + 1
    /\ UNCHANGED <<setups, prepared, handovers>>
    /\ UNCHANGED <<pureVars, appVars>>

NextLive == LivePass \/ LiveTake

\* the caller applies one of the two: a take or a pass is counted
CallerActs ==
    /\ canTake(state)
    /\ \/ takes' = takes + 1 /\ passesOnCard' = 0
       \/ takes' = takes /\ passesOnCard' = passesOnCard + 1

SpecLive ==
    InitLive /\ [][NextLive]_vars /\ WF_<<takes, passesOnCard>>(CallerActs)

\* the cards of a match: those of the deck that are not removed
CardsInPlay == MAX_CARD - MIN_CARD + 1 - UNKNOWN_CARDS

(***************************************************************************)
(* C23.  A match with n >= 1 players whose caller keeps applying           *)
(* state-changing actions eventually reaches done; it is done exactly      *)
(* after 24 state-changing takeCard calls, and at most 11 * n              *)
(* state-changing passCard calls lie between two consecutive takes.        *)
(***************************************************************************)
MatchTerminates ==
    /\ <>(state.status = "done")
    /\ [](state.status = "done" <=> takes = CardsInPlay)
    /\ [](passesOnCard <= STARTING_CHIPS * Len(setups))

\* several players have passed a card around until nobody has a chip left
EveryoneBroke ==
    /\ Len(state.players) > 1
    /\ state.status = "playing"
    /\ passesOnCard = STARTING_CHIPS * Len(state.players)
    /\ \A i \in 1..Len(state.players) : state.players[i].chips = 0
    /\ ~canPass(state)
    /\ canTake(state)

(***************************************************************************)
(* C24.  When the active card is not in the acting player's hand of        *)
(* distinct cards and is adjacent to a card of that hand, delta <= 0; so,  *)
(* when the player has chips, decideBotAction returns take for every       *)
(* style, and for easy whatever the random value is.                       *)
(***************************************************************************)
\* delta, as decideBotAction computes it
CodeDelta(s) ==
    LET player == getActivePlayer(s)
    IN  addAndScore(player, s.activeCard, s.chipsOnCard).projectedScore
          - (cardPoints(player.cards).total - player.chips)

AdjacentCardIsTaken ==
    (/\ BotReturned
     /\ call.state.activeCard # Null
     /\ HasActivePlayer(call.state)
     /\ RunLinkOf(call.state))
      => /\ CodeDelta(call.state) <= 0
         /\ getActivePlayer(call.state).chips > 0 =>
               \A sc \in Styles \X ChanceValues : Decision(sc[1], sc[2]) = "take"

\* a player with chips was shown the card between two cards of the hand,
\* with no chips on it, and every style took it
JoinedTwoRuns ==
    /\ BotReturned /\ Deciding(call.state)
    /\ LET H == Elems(getActivePlayer(call.state).cards)
       IN  /\ (call.state.activeCard - 1) \in H
           /\ (call.state.activeCard + 1) \in H
    /\ call.state.chipsOnCard = 0
    /\ CodeDelta(call.state) < 0
    /\ \A sc \in Styles \X ChanceValues : Decision(sc[1], sc[2]) = "take"

(***************************************************************************)
(* C25.  Style easy, with an active card and an acting player who has      *)
(* chips: with 3 or more chips on the card the decision is take for every  *)
(* random value; a pass is returned only with at most 2 chips on the card  *)
(* and a random value above 0.5.                                           *)
(***************************************************************************)
EasyPileAlwaysTakes ==
    (BotReturned /\ Deciding(call.state)) =>
        \A v \in ChanceValues :
           /\ call.state.chipsOnCard >= 3 => Decision("easy", v) = "take"
           /\ Decision("easy", v) = "pass" =>
                 (call.state.chipsOnCard <= 2 /\ 2 * v > RandDen)

\* easy was shown a card that links no run: with 3 chips on it, it took at
\* every random value; the rule passes at 0.99 as soon as one chip is missing
EasyTookAtEveryValue ==
    /\ BotReturned /\ Deciding(call.state)
    /\ ~RunLinkOf(call.state)
    /\ call.state.chipsOnCard = 3
    /\ \A v \in ChanceValues : Decision("easy", v) = "take"
    /\ decideBotAction([call.state EXCEPT !.chipsOnCard = 2], "easy", RandDen - 1)
          = "pass"

====
